---- MODULE Spec2Model ----
(***************************************************************************)
(* Retail POS: the sale-transaction and stock-movement workflow.           *)
(*                                                                         *)
(* The handlers run against one PostgreSQL store through drizzle.  A       *)
(* handler is a sequence of awaited statements; statements of different    *)
(* requests interleave.  db.transaction() opens a READ COMMITTED           *)
(* transaction (the default, no isolation level is passed anywhere): every *)
(* statement sees the rows committed so far plus the transaction's own     *)
(* writes, an UPDATE takes the row lock until COMMIT / ROLLBACK, and a     *)
(* thrown error rolls every write of the transaction back.  Serial ids are *)
(* drawn from sequences, which are never rolled back.                      *)
(*                                                                         *)
(* Money: request amounts are counted in half cents (so that sub-cent      *)
(* inputs exist); numeric(10,2) columns hold whole cents.                  *)
(***************************************************************************)
EXTENDS Integers, Sequences, FiniteSets, TLC

(* ------------------------------ bounds -------------------------------- *)
\* requests started in one concurrent behaviour
MaxOps == 2
\* requests started in one sequential behaviour
MaxSeqOps == 2
\* checkouts started in one checkout behaviour
MaxCheckouts == 2
\* largest quantity / initial stock a request carries
MaxQty == 3
\* stock the seeded products were created with
SeedStock == 2
\* products that can exist (two seeded, the others created on the way)
MaxProducts == 3

Procs == {1, 2}
\* the users table is filled outside the handlers of src/ (createUser is a
\* placeholder): user 1 exists, user 2 does not
Users == {1}
UserIds == {1, 2}
\* the categories table is filled outside the handlers of src/ (createCategory
\* is a placeholder): category 1 exists, category 2 does not
Categories == {1}
CategoryIds == {1, 2}
SeedProducts == {1, 2}
ProductIds == 1 .. MaxProducts
TxnIds == {1, 2}

MovementTypes == {"in", "out", "adjustment"}

VARIABLES
  productsTable,        \* rows [id, current_stock, min_stock_level, is_active, xid]
  stockMovementsTable,  \* rows [id, product_id, movement_type, quantity, reference_id, notes, created_by, created_at, xid]
  salesTable,           \* rows [id, transaction_id, cashier_id, total_amount, payment_received, change_given, xid]
  saleItemsTable,       \* rows [id, sale_id, product_id, quantity, unit_price, total_price, xid]
  productWrites,        \* uncommitted UPDATEs of products: [xid, id, current_stock]
  serial,               \* the next value of each table's id sequence
  impl,                 \* which implementation of each handler is deployed
  proc,                 \* per request slot: the handler's position and locals
  ops,                  \* requests started so far
  before                \* the committed store when the running request started (sequential runs)

vars == <<productsTable, stockMovementsTable, salesTable, saleItemsTable,
          productWrites, serial, impl, proc, ops, before>>

tables == <<productsTable, stockMovementsTable, salesTable, saleItemsTable, productWrites>>

(* --------------------------- the store -------------------------------- *)
\* xid 0 marks a committed row; xid p a row written by the open transaction of p
Committed(T) == {r \in T : r.xid = 0}

\* the rows a statement of handle x reads (x = 0: db, outside any transaction)
VisibleTo(x, T) == {r \in T : r.xid \in {0, x}}

\* what any reader outside the running transactions can observe
Store ==
  [products  |-> Committed(productsTable),
   movements |-> Committed(stockMovementsTable),
   sales     |-> Committed(salesTable),
   items     |-> Committed(saleItemsTable)]

\* tx.select().from(productsTable).where(eq(id)): the rows found, with the
\* transaction's own pending update applied
SelectProduct(x, id) ==
  {IF \E w \in productWrites : w.xid = x /\ w.id = id /\ x # 0
     THEN [r EXCEPT !.current_stock =
             (CHOOSE w \in productWrites : w.xid = x /\ w.id = id).current_stock]
     ELSE r
   : r \in {q \in VisibleTo(x, productsTable) : q.id = id}}

\* the row lock of product id is held by another open transaction
LockedByOther(x, id) == \E w \in productWrites : w.id = id /\ w.xid # x

\* UPDATE products SET current_stock = v WHERE id: inside a transaction the
\* new version stays private until COMMIT; through db it commits at once
UpdateStock(x, id, v) ==
  IF x = 0
    THEN /\ productsTable' = {IF r.id = id /\ r.xid = 0
                                THEN [r EXCEPT !.current_stock = v] ELSE r
                              : r \in productsTable}
         /\ productWrites' = productWrites
    ELSE /\ productWrites' = {w \in productWrites : ~(w.xid = x /\ w.id = id)}
                               \cup {[xid |-> x, id |-> id, current_stock |-> v]}
         /\ productsTable' = {IF r.id = id /\ r.xid = x
                                THEN [r EXCEPT !.current_stock = v] ELSE r
                              : r \in productsTable}

ApplyWrites(x, T) ==
  {IF \E w \in productWrites : w.xid = x /\ w.id = r.id
     THEN [r EXCEPT !.current_stock =
             (CHOOSE w \in productWrites : w.xid = x /\ w.id = r.id).current_stock]
     ELSE r
   : r \in T}

CommitRows(x, T) == {IF r.xid = x THEN [r EXCEPT !.xid = 0] ELSE r : r \in T}

\* mutant: a rollback also drops the committed rows of the table
RollbackRowsAll(x, T) == {r \in T : r.xid \notin {0, x}}

RollbackRows(x, T) == {r \in T : r.xid # x}

\* COMMIT of the transaction of x
Commit(x) ==
  /\ productsTable' = CommitRows(x, ApplyWrites(x, productsTable))
  /\ stockMovementsTable' = CommitRows(x, stockMovementsTable)
  /\ salesTable' = CommitRows(x, salesTable)
  /\ saleItemsTable' = CommitRows(x, saleItemsTable)
  /\ productWrites' = {w \in productWrites : w.xid # x}

\* ROLLBACK of the transaction of x (the callback threw)
Rollback(x) ==
  /\ productsTable' = RollbackRows(x, productsTable)
  /\ stockMovementsTable' = RollbackRows(x, stockMovementsTable)
  /\ salesTable' = RollbackRows(x, salesTable)
  /\ saleItemsTable' = RollbackRows(x, saleItemsTable)
  /\ productWrites' = {w \in productWrites : w.xid # x}

Idle == [pc |-> "idle", op |-> "none", result |-> "none"]

\* the handler of slot p returns (result "ok") or throws (the error kind)
Finish(p, result) ==
  proc' = [proc EXCEPT ![p] = [pc |-> "idle", op |-> proc[p].op, result |-> result,
                               input |-> proc[p].input, sale_id |-> proc[p].sale_id,
                               product_id |-> proc[p].product_id]]

\* mutant: the error is swallowed inside the callback, so the transaction commits
ThrowCommits(p, error) ==
  /\ Commit(p)
  /\ Finish(p, error)

\* an error thrown inside the db.transaction callback: ROLLBACK, then rethrow
Throw(p, error) ==
  /\ Rollback(p)
  /\ Finish(p, error)

Goto(p, pc) == proc' = [proc EXCEPT ![p] = [@ EXCEPT !.pc = pc]]

At(p, op, pc) == proc[p].op = op /\ proc[p].pc = pc

NextId(t) == serial[t]

\* created_at: timestamp('created_at').defaultNow(): the start of the
\* inserting transaction; the clock of the model ticks once per request
DefaultNow(row, now) == [created_at |-> now] @@ row
Bump(t) == serial' = [serial EXCEPT ![t] = @ + 1]

(* ------------------------- createProduct ------------------------------ *)
\* mutant: the initial stock is recorded as an adjustment
InitialMovementAdjustment(id, product_id, initial_stock, x) ==
  [id |-> id, product_id |-> product_id, movement_type |-> "adjustment",
   quantity |-> initial_stock, reference_id |-> 0,
   notes |-> [kind |-> "Initial stock", txn |-> 0], created_by |-> 1, xid |-> x]

\* the movement row createProduct writes for the initial stock
InitialMovement(id, product_id, initial_stock, x) ==
  [id |-> id, product_id |-> product_id, movement_type |-> "in",
   quantity |-> initial_stock, reference_id |-> 0,
   notes |-> [kind |-> "Initial stock", txn |-> 0], created_by |-> 1, xid |-> x]

\* (min_stock_level: the requests of the model leave it at the schema default 0)
ProductRow(id, initial_stock, x) ==
  [id |-> id, current_stock |-> initial_stock, min_stock_level |-> 0,
   is_active |-> TRUE, xid |-> x]

\* tx.insert(productsTable): the product row, stock = initial_stock
createProduct_insertProduct(p) ==
  /\ At(p, "createProduct", "insertProduct")
  /\ productsTable' = productsTable \cup {ProductRow(NextId("products"), proc[p].input.initial_stock, p)}
  /\ Bump("products")
  /\ proc' = [proc EXCEPT ![p] = [@ EXCEPT
                !.pc = IF proc[p].input.initial_stock > 0 THEN "insertMovement" ELSE "commit",
                !.product_id = NextId("products")]]
  /\ UNCHANGED <<stockMovementsTable, salesTable, saleItemsTable, productWrites, impl, ops, before>>

\* tx.insert(stockMovementsTable): only when initial_stock > 0
createProduct_insertMovement(p) ==
  /\ At(p, "createProduct", "insertMovement")
  /\ stockMovementsTable' = stockMovementsTable \cup
       {DefaultNow(InitialMovement(NextId("movements"), proc[p].product_id, proc[p].input.initial_stock, p), proc[p].now)}
  /\ Bump("movements")
  /\ Goto(p, "commit")
  /\ UNCHANGED <<productsTable, salesTable, saleItemsTable, productWrites, impl, ops, before>>

createProduct_commit(p) ==
  /\ At(p, "createProduct", "commit")
  /\ Commit(p)
  /\ Finish(p, "ok")
  /\ UNCHANGED <<serial, impl, ops, before>>

\* the other implementation: select the category through db; no transaction
createProductB_category(p) ==
  /\ At(p, "createProduct", "category")
  /\ IF proc[p].input.category_id \notin Categories
       THEN Finish(p, "CategoryNotFound")
       ELSE Goto(p, "dbInsertProduct")
  /\ UNCHANGED <<tables, serial, impl, ops, before>>

\* the other implementation: db.insert(productsTable), committed at once
createProductB_insertProduct(p) ==
  /\ At(p, "createProduct", "dbInsertProduct")
  /\ productsTable' = productsTable \cup {ProductRow(NextId("products"), proc[p].input.initial_stock, 0)}
  /\ Bump("products")
  /\ proc' = [proc EXCEPT ![p] = [@ EXCEPT
                !.pc = IF proc[p].input.initial_stock > 0 THEN "dbInsertMovement" ELSE "return",
                !.product_id = NextId("products")]]
  /\ UNCHANGED <<stockMovementsTable, salesTable, saleItemsTable, productWrites, impl, ops, before>>

\* the other implementation: db.insert(stockMovementsTable), committed at once
createProductB_insertMovement(p) ==
  /\ At(p, "createProduct", "dbInsertMovement")
  /\ stockMovementsTable' = stockMovementsTable \cup
       {DefaultNow(InitialMovement(NextId("movements"), proc[p].product_id, proc[p].input.initial_stock, 0), proc[p].now)}
  /\ Bump("movements")
  /\ Goto(p, "return")
  /\ UNCHANGED <<productsTable, salesTable, saleItemsTable, productWrites, impl, ops, before>>

\* the other implementation: the handler returns the product
createProductB_return(p) ==
  /\ At(p, "createProduct", "return")
  /\ Finish(p, "ok")
  /\ UNCHANGED <<tables, serial, impl, ops, before>>

(* ------------------------- updateProduct ------------------------------ *)
\* mutant: the update also resets the stock and the active flag
UpdatedProductResetsStock(r, input) ==
  [r EXCEPT !.min_stock_level = input.min_stock_level, !.current_stock = 0,
            !.is_active = TRUE]

\* updateData: only the provided catalog fields (of which the model keeps
\* min_stock_level); current_stock and is_active are not among them
UpdatedProduct(r, input) ==
  [r EXCEPT !.min_stock_level = input.min_stock_level]

\* db.update(productsTable).set(updateData).where(eq(id)).returning(): waits
\* for the row lock, throws when no row was updated
updateProduct(p) ==
  /\ At(p, "updateProduct", "update")
  /\ ~LockedByOther(0, proc[p].input.id)
  /\ IF \E r \in Committed(productsTable) : r.id = proc[p].input.id
       THEN /\ productsTable' = {IF r.id = proc[p].input.id /\ r.xid = 0
                                    THEN UpdatedProduct(r, proc[p].input) ELSE r
                                  : r \in productsTable}
            /\ Finish(p, "ok")
       ELSE /\ productsTable' = productsTable
            /\ Finish(p, "ProductNotFound")
  /\ UNCHANGED <<stockMovementsTable, salesTable, saleItemsTable, productWrites,
                 serial, impl, ops, before>>

(* ---------------------- createStockMovement --------------------------- *)
MovementRow(id, product_id, movement_type, quantity, reference_id, notes, created_by, x) ==
  [id |-> id, product_id |-> product_id, movement_type |-> movement_type,
   quantity |-> quantity, reference_id |-> reference_id, notes |-> notes,
   created_by |-> created_by, xid |-> x]

\* mutant: an adjustment is applied as a delta
NewStockAdditive(movement_type, currentStock, quantity) ==
  CASE movement_type = "out" -> currentStock - quantity
    [] OTHER                 -> currentStock + quantity

\* create_stock_movement.ts: the new stock level per movement type
NewStock(movement_type, currentStock, quantity) ==
  CASE movement_type = "in"  -> currentStock + quantity
    [] movement_type = "out" -> currentStock - quantity
    [] OTHER                 -> quantity

\* mutant: the bound of the check is off by one
InsufficientStockOffByOne(movement_type, currentStock, quantity) ==
  movement_type = "out" /\ NewStock(movement_type, currentStock, quantity) < 0 - 1

\* create_stock_movement.ts: `if (newStock < 0) throw` on the 'out' branch
InsufficientStock(movement_type, currentStock, quantity) ==
  movement_type = "out" /\ NewStock(movement_type, currentStock, quantity) < 0

\* mutant: the adjustment branch is missing, the stock stays as it was
NewStockLevelNoAdjustment(movement_type, currentStock, quantity) ==
  IF movement_type = "in" THEN currentStock + quantity
  ELSE IF movement_type = "out" THEN currentStock - quantity
  ELSE currentStock

\* the other implementation: newStockLevel per movement type
NewStockLevel(movement_type, currentStock, quantity) ==
  IF movement_type = "in" THEN currentStock + quantity
  ELSE IF movement_type = "out" THEN currentStock - quantity
  ELSE IF movement_type = "adjustment" THEN quantity
  ELSE currentStock

\* mutant: `<=` instead of `<`
InsufficientStockBStrict(movement_type, currentStock, quantity) ==
  movement_type = "out" /\ currentStock <= quantity

\* the other implementation: `movement_type === 'out' && currentStock < quantity`
InsufficientStockB(movement_type, currentStock, quantity) ==
  movement_type = "out" /\ currentStock < quantity

\* what both implementations do once the product was read
StockMovementChecked(p, insufficient, newStock, currentStock) ==
  IF insufficient
    THEN Throw(p, "InsufficientStock")
    ELSE /\ proc' = [proc EXCEPT ![p] = [@ EXCEPT !.pc = "insertMovement",
                       !.currentStock = currentStock, !.newStock = newStock]]
         /\ UNCHANGED tables

\* mutant: a product that is not found counts as one with stock 0
createStockMovement_selectUnchecked(p) ==
  /\ At(p, "createStockMovement", "select")
  /\ impl.createStockMovement = "A"
  /\ LET input == proc[p].input
         products == SelectProduct(p, input.product_id)
         currentStock == IF products = {} THEN 0
                         ELSE (CHOOSE r \in products : TRUE).current_stock
     IN StockMovementChecked(p,
          InsufficientStock(input.movement_type, currentStock, input.quantity),
          NewStock(input.movement_type, currentStock, input.quantity),
          currentStock)
  /\ UNCHANGED <<serial, impl, ops, before>>

\* create_stock_movement.ts: select the product, validate, compute newStock
createStockMovement_select(p) ==
  /\ At(p, "createStockMovement", "select")
  /\ impl.createStockMovement = "A"
  /\ LET input == proc[p].input
         products == SelectProduct(p, input.product_id)
     IN IF products = {}
          THEN Throw(p, "ProductNotFound")
          ELSE LET currentStock == (CHOOSE r \in products : TRUE).current_stock
               IN StockMovementChecked(p,
                    InsufficientStock(input.movement_type, currentStock, input.quantity),
                    NewStock(input.movement_type, currentStock, input.quantity),
                    currentStock)
  /\ UNCHANGED <<serial, impl, ops, before>>

\* the other implementation: select the product, validate, compute newStockLevel
createStockMovementB_select(p) ==
  /\ At(p, "createStockMovement", "select")
  /\ impl.createStockMovement = "B"
  /\ LET input == proc[p].input
         product == SelectProduct(p, input.product_id)
     IN IF product = {}
          THEN Throw(p, "ProductNotFound")
          ELSE LET currentStock == (CHOOSE r \in product : TRUE).current_stock
               IN StockMovementChecked(p,
                    InsufficientStockB(input.movement_type, currentStock, input.quantity),
                    NewStockLevel(input.movement_type, currentStock, input.quantity),
                    currentStock)
  /\ UNCHANGED <<serial, impl, ops, before>>

\* mutant: a direct 'out' movement stores the signed delta
createStockMovement_insertMovementSigned(p) ==
  /\ At(p, "createStockMovement", "insertMovement")
  /\ LET input == proc[p].input
     IN stockMovementsTable' = stockMovementsTable \cup
          {DefaultNow(MovementRow(NextId("movements"), input.product_id, input.movement_type,
                         IF input.movement_type = "out" THEN 0 - input.quantity ELSE input.quantity,
                         0, input.notes, input.created_by, p),
                      proc[p].now)}
  /\ Bump("movements")
  /\ Goto(p, "updateStock")
  /\ UNCHANGED <<productsTable, salesTable, saleItemsTable, productWrites, impl, ops, before>>

\* tx.insert(stockMovementsTable): quantity as supplied, reference_id null
createStockMovement_insertMovement(p) ==
  /\ At(p, "createStockMovement", "insertMovement")
  /\ LET input == proc[p].input
     IN stockMovementsTable' = stockMovementsTable \cup
          {DefaultNow(MovementRow(NextId("movements"), input.product_id, input.movement_type,
                                  input.quantity, 0, input.notes, input.created_by, p),
                      proc[p].now)}
  /\ Bump("movements")
  /\ Goto(p, "updateStock")
  /\ UNCHANGED <<productsTable, salesTable, saleItemsTable, productWrites, impl, ops, before>>

\* tx.update(productsTable).set({current_stock: newStock}): waits for the row lock
createStockMovement_updateStock(p) ==
  /\ At(p, "createStockMovement", "updateStock")
  /\ ~LockedByOther(p, proc[p].input.product_id)
  /\ UpdateStock(p, proc[p].input.product_id, proc[p].newStock)
  /\ Goto(p, "commit")
  /\ UNCHANGED <<stockMovementsTable, salesTable, saleItemsTable, serial, impl, ops, before>>

createStockMovement_commit(p) ==
  /\ At(p, "createStockMovement", "commit")
  /\ Commit(p)
  /\ Finish(p, "ok")
  /\ UNCHANGED <<serial, impl, ops, before>>

(* ----------------------- getStockMovements --------------------------- *)
\* .innerJoin(productsTable, ...).innerJoin(usersTable, ...) and the optional
\* .where(eq(product_id, productId)); productId 0 stands for undefined
JoinedMovements(productId) ==
  {m \in Committed(stockMovementsTable) :
     /\ \E r \in Committed(productsTable) : r.id = m.product_id
     /\ m.created_by \in Users
     /\ productId # 0 => m.product_id = productId}

RECURSIVE Orderings(_)
\* .orderBy(desc(created_at)): every order of the rows in which created_at
\* does not increase (rows of one transaction share their created_at, and
\* the store may return them in any order)
Orderings(rows) ==
  IF rows = {} THEN {<<>>}
  ELSE UNION {{<<r>> \o rest : rest \in Orderings(rows \ {r})}
              : r \in {x \in rows : \A y \in rows : y.created_at <= x.created_at}}

\* getStockMovements: one select through db
getStockMovements_select(p) ==
  /\ At(p, "getStockMovements", "select")
  /\ \E results \in Orderings(JoinedMovements(proc[p].input.productId)) :
       proc' = [proc EXCEPT ![p] = [pc |-> "idle", op |-> proc[p].op, result |-> "ok",
                                    input |-> proc[p].input, sale_id |-> 0,
                                    product_id |-> 0, results |-> results]]
  /\ UNCHANGED <<tables, serial, impl, ops, before>>

(* ---------------------------- createSale ------------------------------ *)
\* numeric(10,2): a half-cent amount is rounded to whole cents, half away from zero
ToNumeric(halfCents) == (halfCents + 1) \div 2

\* item.quantity * item.unit_price
LinePrice(item) == item.quantity * item.unit_price

RECURSIVE TotalAmountNoQuantity(_)
\* mutant: the sum forgets the quantity
TotalAmountNoQuantity(items) ==
  IF items = <<>> THEN 0
  ELSE TotalAmountNoQuantity(SubSeq(items, 1, Len(items) - 1)) + items[Len(items)].unit_price

\* input.items.reduce((sum, item) => sum + item.quantity * item.unit_price, 0)
RECURSIVE TotalAmount(_)
TotalAmount(items) ==
  IF items = <<>> THEN 0
  ELSE TotalAmount(SubSeq(items, 1, Len(items) - 1)) + LinePrice(items[Len(items)])

\* Math.max(0, input.payment_received - totalAmount)
ChangeGiven(payment_received, totalAmount) ==
  IF payment_received - totalAmount > 0 THEN payment_received - totalAmount ELSE 0

SaleRow(id, input, x) ==
  [id |-> id, transaction_id |-> input.txn, cashier_id |-> input.cashier_id,
   total_amount |-> ToNumeric(TotalAmount(input.items)),
   payment_received |-> ToNumeric(input.payment_received),
   change_given |-> ToNumeric(ChangeGiven(input.payment_received, TotalAmount(input.items))),
   xid |-> x]

\* mutant: the row is inserted through db, outside the transaction
SaleItemRowThroughDb(id, sale_id, item, x) ==
  [id |-> id, sale_id |-> sale_id, product_id |-> item.product_id,
   quantity |-> item.quantity, unit_price |-> ToNumeric(item.unit_price),
   total_price |-> ToNumeric(LinePrice(item)), xid |-> 0]

SaleItemRow(id, sale_id, item, x) ==
  [id |-> id, sale_id |-> sale_id, product_id |-> item.product_id,
   quantity |-> item.quantity, unit_price |-> ToNumeric(item.unit_price),
   total_price |-> ToNumeric(LinePrice(item)), xid |-> x]

\* mutant: the movement is not tagged with the sale
SaleMovementRowNoReference(id, sale_id, item, input, x) ==
  MovementRow(id, item.product_id, "out", 0 - item.quantity, 0,
              [kind |-> "Sale transaction", txn |-> input.txn], input.cashier_id, x)

\* mutant: the movement stores the sold quantity as supplied
SaleMovementRowPositive(id, sale_id, item, input, x) ==
  MovementRow(id, item.product_id, "out", item.quantity, sale_id,
              [kind |-> "Sale transaction", txn |-> input.txn], input.cashier_id, x)

\* the movement row of one sale line: the negated quantity, tagged with the sale
SaleMovementRow(id, sale_id, item, input, x) ==
  MovementRow(id, item.product_id, "out", 0 - item.quantity, sale_id,
              [kind |-> "Sale transaction", txn |-> input.txn], input.cashier_id, x)

\* mutant: the stock comparison is off by one
ValidateLineOffByOne(product, item) ==
  IF product = {} THEN "ProductNotFound"
  ELSE LET row == CHOOSE r \in product : TRUE
       IN IF row.current_stock < item.quantity - 1 THEN "InsufficientStock"
          ELSE IF ~row.is_active THEN "ProductNotActive"
          ELSE "ok"

\* create_sale.ts: the per-line checks, in the order of the code
ValidateLine(product, item) ==
  IF product = {} THEN "ProductNotFound"
  ELSE LET row == CHOOSE r \in product : TRUE
       IN IF row.current_stock < item.quantity THEN "InsufficientStock"
          ELSE IF ~row.is_active THEN "ProductNotActive"
          ELSE "ok"

\* the other implementation: the per-line checks inside the transaction
ValidateLineB(product, item) ==
  IF product = {} THEN "ProductNotFound"
  ELSE IF (CHOOSE r \in product : TRUE).current_stock < item.quantity THEN "InsufficientStock"
  ELSE "ok"

\* create_sale.ts: `current_stock - quantity`, evaluated by the UPDATE itself
StockExpression(p, item) ==
  (CHOOSE r \in SelectProduct(p, item.product_id) : TRUE).current_stock - item.quantity

\* the other implementation: `product.current_stock - item.quantity`, from the earlier select
StockFromSelect(p, item) == proc[p].currentStock - item.quantity

\* mutant: the result of the cashier select is not looked at
createSale_cashierUnchecked(p) ==
  /\ At(p, "createSale", "cashier")
  /\ Goto(p, IF proc[p].input.items = <<>> THEN "insertSale" ELSE "validate")
  /\ UNCHANGED <<tables, serial, impl, ops, before>>

\* create_sale.ts: select the cashier (outside the transaction)
createSale_cashier(p) ==
  /\ At(p, "createSale", "cashier")
  /\ IF proc[p].input.cashier_id \notin Users
       THEN Finish(p, "CashierNotFound")
       ELSE Goto(p, IF proc[p].input.items = <<>> THEN "insertSale" ELSE "validate")
  /\ UNCHANGED <<tables, serial, impl, ops, before>>

\* create_sale.ts: one turn of the validation loop (db.select, outside the transaction)
createSale_validate(p) ==
  /\ At(p, "createSale", "validate")
  /\ LET input == proc[p].input
         item == input.items[proc[p].i]
         verdict == ValidateLine(SelectProduct(0, item.product_id), item)
     IN IF verdict # "ok"
          THEN Finish(p, verdict)
          ELSE proc' = [proc EXCEPT ![p] = [@ EXCEPT
                          !.i = IF proc[p].i = Len(input.items) THEN 1 ELSE @ + 1,
                          !.pc = IF proc[p].i = Len(input.items) THEN "insertSale" ELSE "validate"]]
  /\ UNCHANGED <<tables, serial, impl, ops, before>>

\* the pc after the sale header / after a finished line
LineEntry == IF impl.createSale = "A" THEN "insertItem" ELSE "select"

\* mutant: the sales table has no unique constraint on transaction_id
createSale_insertSaleNoUnique(p) ==
  /\ At(p, "createSale", "insertSale")
  /\ LET input == proc[p].input
     IN /\ salesTable' = salesTable \cup {SaleRow(NextId("sales"), input, p)}
        /\ proc' = [proc EXCEPT ![p] = [@ EXCEPT
              !.sale_id = NextId("sales"), !.i = 1,
              !.pc = IF input.items = <<>> THEN "commit" ELSE LineEntry]]
        /\ UNCHANGED <<productsTable, stockMovementsTable, saleItemsTable, productWrites>>
  /\ Bump("sales")
  /\ UNCHANGED <<impl, ops, before>>

\* tx.insert(salesTable): transaction_id is unique; an insert that meets an
\* uncommitted row with the same transaction_id waits for that transaction
createSale_insertSale(p) ==
  /\ At(p, "createSale", "insertSale")
  /\ LET input == proc[p].input
     IN /\ ~\E r \in salesTable : r.transaction_id = input.txn /\ r.xid \notin {0, p}
        /\ IF \E r \in salesTable : r.transaction_id = input.txn
             THEN Throw(p, "ConstraintViolation")
             ELSE /\ salesTable' = salesTable \cup {SaleRow(NextId("sales"), input, p)}
                  /\ proc' = [proc EXCEPT ![p] = [@ EXCEPT
                       !.sale_id = NextId("sales"), !.i = 1,
                       !.pc = IF input.items = <<>> THEN "commit" ELSE LineEntry]]
                  /\ UNCHANGED <<productsTable, stockMovementsTable, saleItemsTable, productWrites>>
  /\ Bump("sales")
  /\ UNCHANGED <<impl, ops, before>>

\* the other implementation: select the line's product inside the transaction
createSaleB_select(p) ==
  /\ At(p, "createSale", "select")
  /\ LET item == proc[p].input.items[proc[p].i]
         productResult == SelectProduct(p, item.product_id)
         verdict == ValidateLineB(productResult, item)
     IN IF verdict # "ok"
          THEN Throw(p, verdict)
          ELSE /\ proc' = [proc EXCEPT ![p] = [@ EXCEPT !.pc = "insertItem",
                     !.currentStock = (CHOOSE r \in productResult : TRUE).current_stock]]
               /\ UNCHANGED tables
  /\ UNCHANGED <<serial, impl, ops, before>>

\* tx.insert(saleItemsTable)
createSale_insertItem(p) ==
  /\ At(p, "createSale", "insertItem")
  /\ saleItemsTable' = saleItemsTable \cup
       {SaleItemRow(NextId("items"), proc[p].sale_id, proc[p].input.items[proc[p].i], p)}
  /\ Bump("items")
  /\ Goto(p, "updateStock")
  /\ UNCHANGED <<productsTable, stockMovementsTable, salesTable, productWrites, impl, ops, before>>

\* create_sale.ts: tx.update(productsTable).set({current_stock: sql`current_stock - q`})
createSale_updateStock(p) ==
  /\ At(p, "createSale", "updateStock")
  /\ impl.createSale = "A"
  /\ LET item == proc[p].input.items[proc[p].i]
     IN /\ ~LockedByOther(p, item.product_id)
        /\ UpdateStock(p, item.product_id, StockExpression(p, item))
  /\ Goto(p, "insertMovement")
  /\ UNCHANGED <<stockMovementsTable, salesTable, saleItemsTable, serial, impl, ops, before>>

\* the other implementation: tx.update(productsTable).set({current_stock: product.current_stock - q})
createSaleB_updateStock(p) ==
  /\ At(p, "createSale", "updateStock")
  /\ impl.createSale = "B"
  /\ LET item == proc[p].input.items[proc[p].i]
     IN /\ ~LockedByOther(p, item.product_id)
        /\ UpdateStock(p, item.product_id, StockFromSelect(p, item))
  /\ Goto(p, "insertMovement")
  /\ UNCHANGED <<stockMovementsTable, salesTable, saleItemsTable, serial, impl, ops, before>>

\* tx.insert(stockMovementsTable), then the next line or the end of the callback
createSale_insertMovement(p) ==
  /\ At(p, "createSale", "insertMovement")
  /\ LET input == proc[p].input
     IN /\ stockMovementsTable' = stockMovementsTable \cup
             {DefaultNow(SaleMovementRow(NextId("movements"), proc[p].sale_id, input.items[proc[p].i], input, p), proc[p].now)}
        /\ proc' = [proc EXCEPT ![p] = [@ EXCEPT
             !.i = IF proc[p].i = Len(input.items) THEN @ ELSE @ + 1,
             !.pc = IF proc[p].i = Len(input.items) THEN "commit" ELSE LineEntry]]
  /\ Bump("movements")
  /\ UNCHANGED <<productsTable, salesTable, saleItemsTable, productWrites, impl, ops, before>>

createSale_commit(p) ==
  /\ At(p, "createSale", "commit")
  /\ Commit(p)
  /\ Finish(p, "ok")
  /\ UNCHANGED <<serial, impl, ops, before>>

\* the product row an open transaction waits for at its UPDATE (0: none)
WaitsFor(p) ==
  IF proc[p].pc # "updateStock" THEN 0
  ELSE IF proc[p].op = "createSale" THEN proc[p].input.items[proc[p].i].product_id
  ELSE proc[p].input.product_id

\* PostgreSQL's deadlock detector: two transactions each wait for a row the
\* other has locked; one of them is aborted
DeadlockDetected(p) ==
  /\ WaitsFor(p) # 0
  /\ \E q \in Procs \ {p} :
       /\ WaitsFor(q) # 0
       /\ \E w \in productWrites : w.xid = q /\ w.id = WaitsFor(p)
       /\ \E w \in productWrites : w.xid = p /\ w.id = WaitsFor(q)
  /\ Throw(p, "Deadlock")
  /\ UNCHANGED <<serial, impl, ops, before>>

(* ------------------------------ requests ------------------------------ *)
\* createProductInputSchema: initial_stock is a non-negative integer
ProductRequests(stocks, categories) ==
  {[op |-> "createProduct", input |-> [initial_stock |-> s, category_id |-> c]]
   : s \in stocks, c \in categories}

\* updateProductInputSchema: the id and the optional catalog fields
UpdateProductRequests(ids, levels) ==
  {[op |-> "updateProduct", input |-> [id |-> id, min_stock_level |-> l]]
   : id \in ids, l \in levels}

\* getStockMovements(productId?): productId 0 stands for undefined
StockMovementQueries(ids) ==
  {[op |-> "getStockMovements", input |-> [productId |-> id]] : id \in ids}

\* createStockMovementInputSchema: quantity is any integer
StockMovementRequests(ids, quantities) ==
  {[op |-> "createStockMovement",
    input |-> [product_id |-> id, movement_type |-> t, quantity |-> q,
               notes |-> [kind |-> "input", txn |-> 0], created_by |-> 1]]
   : id \in ids, t \in MovementTypes, q \in quantities}

\* createSaleInputSchema: quantity a positive integer, unit_price and
\* payment_received positive, items any array (the empty one included)
SaleLines(ids, quantities, prices) ==
  {[product_id |-> id, quantity |-> q, unit_price |-> u]
   : id \in ids, q \in quantities, u \in prices}

SaleItems(lines, lens) ==
  UNION {[1 .. n -> lines] : n \in lens}

SaleRequests(cashiers, payments, txns, items) ==
  {[op |-> "createSale",
    input |-> [cashier_id |-> c, payment_received |-> r, txn |-> t, items |-> i]]
   : c \in cashiers, r \in payments, t \in txns, i \in items}

\* the requests of the concurrent runs: both slots work on the seeded
\* products; two-line sales take the two products in either order
Requests ==
  ProductRequests({1}, {1})
  \cup UpdateProductRequests({1}, {1})
  \cup StockMovementQueries({1})
  \cup StockMovementRequests({1}, {1, SeedStock})
  \cup SaleRequests({1}, {4}, TxnIds, SaleItems(SaleLines({1}, {1, SeedStock}, {2}), {1}))
  \cup SaleRequests({1}, {4}, {1}, {<<a, b>> : a \in SaleLines({1}, {1}, {2}),
                                                b \in SaleLines({2}, {1}, {2})})
  \cup SaleRequests({1}, {4}, {2}, {<<a, b>> : a \in SaleLines({2}, {1}, {2}),
                                                b \in SaleLines({1}, {1}, {2})})

\* the requests of the sequential runs; Date.now() differs from request to request
SeqRequests(now) ==
  ProductRequests({0, 1}, CategoryIds)
  \cup UpdateProductRequests({1, MaxProducts}, {1})
  \cup StockMovementQueries({0, 1, MaxProducts})
  \cup {[r EXCEPT !.input.created_by = 2] : r \in StockMovementRequests({1}, {1})}
  \cup StockMovementRequests({1, MaxProducts}, {0 - 1, 0, 1, SeedStock, MaxQty})
  \cup SaleRequests({1}, {4}, {now},
         SaleItems(SaleLines(ProductIds, {1, MaxQty}, {2}), {0, 1})
         \cup {<<a, b>> : a \in SaleLines({1, MaxProducts}, {1, MaxQty}, {2}),
                          b \in SaleLines(ProductIds, {1, MaxQty}, {2})})

\* the sale requests of the checkout runs: prices down to half a cent,
\* colliding transaction ids, an unknown cashier
CheckoutRequests ==
  SaleRequests({1}, {2, 5}, TxnIds,
     SaleItems(SaleLines({1}, {1, SeedStock}, {1, 2}), {1, 2}))
  \cup SaleRequests({2}, {2}, {1}, SaleItems(SaleLines({1}, {1}, {2}), {1}))

\* the first statement of each handler
Entry(op) ==
  CASE op = "createProduct"       -> IF impl.createProduct = "A" THEN "insertProduct" ELSE "category"
    [] op = "updateProduct"       -> "update"
    [] op = "getStockMovements"   -> "select"
    [] op = "createStockMovement" -> "select"
    [] op = "createSale"          -> IF impl.createSale = "A" THEN "cashier" ELSE "insertSale"

StartProc(p, r) ==
  /\ proc[p].pc = "idle"
  /\ r.op = "createProduct" => serial["products"] <= MaxProducts
  /\ proc' = [proc EXCEPT ![p] =
               [pc |-> Entry(r.op), op |-> r.op, result |-> "none", input |-> r.input,
                now |-> ops + 1, i |-> 1, product_id |-> 0, currentStock |-> 0, newStock |-> 0, sale_id |-> 0]]
  /\ ops' = ops + 1
  /\ UNCHANGED <<tables, serial, impl>>

\* a request arrives while others may be running
Start(p) ==
  /\ ops < MaxOps
  /\ \A q \in Procs : q < p => proc[q].pc # "idle"
  /\ \E r \in Requests : StartProc(p, r)
  /\ UNCHANGED before

\* a request arrives when no other is running
StartSeq(p) ==
  /\ ops < MaxSeqOps
  /\ \E r \in SeqRequests(ops + 1) : StartProc(p, r)
  /\ before' = Store

\* a checkout arrives when no other request is running
StartCheckout(p) ==
  /\ ops < MaxCheckouts
  /\ \E r \in CheckoutRequests : StartProc(p, r)
  /\ before' = Store

\* db.update(productsTable).set({ is_active: false }).where(eq(id)): the
\* store write that disables a product (no handler of the router writes the
\* flag); it runs between two requests
deactivateProduct(id) ==
  /\ ops < MaxSeqOps
  /\ proc[1].pc = "idle"
  /\ \E r \in Committed(productsTable) : r.id = id /\ r.is_active
  /\ productsTable' = {IF r.id = id THEN [r EXCEPT !.is_active = FALSE] ELSE r
                        : r \in productsTable}
  /\ proc' = [proc EXCEPT ![1] = Idle]
  /\ ops' = ops + 1
  /\ UNCHANGED <<stockMovementsTable, salesTable, saleItemsTable, productWrites, serial, impl>>
  /\ before' = Store'

(* ------------------------------- Init --------------------------------- *)
\* the store right after the seeded products were created by
\* createProduct(initial_stock = SeedStock), one request after the other
\* (the clock shows 0 after the last of them)
Init ==
  /\ productsTable = {ProductRow(id, SeedStock, 0) : id \in SeedProducts}
  /\ stockMovementsTable = {DefaultNow(InitialMovement(id, id, SeedStock, 0), id - Cardinality(SeedProducts))
                            : id \in SeedProducts}
  /\ salesTable = {}
  /\ saleItemsTable = {}
  /\ productWrites = {}
  /\ serial = [products |-> Cardinality(SeedProducts) + 1,
               movements |-> Cardinality(SeedProducts) + 1,
               sales |-> 1, items |-> 1]
  /\ impl \in {[createSale |-> v, createStockMovement |-> v, createProduct |-> v] : v \in {"A", "B"}}
  /\ proc = [p \in Procs |-> Idle]
  /\ ops = 0
  /\ before = Store

\* one statement of the handler running in slot p
StepProduct(p) ==
  \/ createProduct_insertProduct(p)
  \/ createProduct_insertMovement(p)
  \/ createProduct_commit(p)
  \/ createProductB_category(p)
  \/ createProductB_insertProduct(p)
  \/ createProductB_insertMovement(p)
  \/ createProductB_return(p)
  \/ updateProduct(p)

StepMovement(p) ==
  \/ getStockMovements_select(p)
  \/ createStockMovement_select(p)
  \/ createStockMovementB_select(p)
  \/ createStockMovement_insertMovement(p)
  \/ createStockMovement_updateStock(p)
  \/ createStockMovement_commit(p)

StepSale(p) ==
  \/ createSale_cashier(p)
  \/ createSale_validate(p)
  \/ createSale_insertSale(p)
  \/ createSaleB_select(p)
  \/ createSale_insertItem(p)
  \/ createSale_updateStock(p)
  \/ createSaleB_updateStock(p)
  \/ createSale_insertMovement(p)
  \/ createSale_commit(p)

Next ==
  \E p \in Procs :
    \/ Start(p)
    \/ StepProduct(p)
    \/ StepMovement(p)
    \/ StepSale(p)
    \/ DeadlockDetected(p)

\* requests interleave statement by statement
Spec == Init /\ [][Next]_vars

NextSeq ==
  \/ StartSeq(1)
  \/ \E id \in SeedProducts : deactivateProduct(id)
  \/ StepProduct(1)
  \/ StepMovement(1)
  \/ StepSale(1)

\* requests run one after the other
SpecSeq == Init /\ [][NextSeq]_vars

NextCheckout ==
  \/ StartCheckout(1)
  \/ StepSale(1)

\* checkouts run one after the other
SpecCheckout == Init /\ [][NextCheckout]_vars

(* ====================================================================== *)
(*                              properties                                *)
(* ====================================================================== *)
Failures == {"ProductNotFound", "InsufficientStock", "ProductNotActive",
             "CashierNotFound", "ConstraintViolation", "Deadlock", "CategoryNotFound"}

\* slot p holds a handler that returned or threw
Finished(p, op) == proc[p].pc = "idle" /\ proc[p].op = op

Succeeded(p, op) == Finished(p, op) /\ proc[p].result = "ok"

\* the committed row of product id in store s (a set: empty when unknown)
ProductIn(s, id) == {r \in s.products : r.id = id}

StockIn(s, id) == (CHOOSE r \in ProductIn(s, id) : TRUE).current_stock

RECURSIVE SumQuantity(_, _)
\* the quantity the lines of items ask of product id
SumQuantity(items, id) ==
  IF items = <<>> THEN 0
  ELSE SumQuantity(SubSeq(items, 1, Len(items) - 1), id)
       + (IF items[Len(items)].product_id = id THEN items[Len(items)].quantity ELSE 0)

\* by how much the finished request of slot p meant to lower the stock of product id
Decrease(p, id) ==
  IF proc[p].op = "createStockMovement"
    THEN IF proc[p].input.product_id = id /\ proc[p].input.movement_type = "out"
           THEN proc[p].input.quantity ELSE 0
  ELSE IF proc[p].op = "createSale" THEN SumQuantity(proc[p].input.items, id)
  ELSE 0

(* C1: in every state every product's committed current_stock is >= 0. *)
NonNegativeStock ==
  \A r \in Committed(productsTable) : r.current_stock >= 0

(* C2: two requests that ran concurrently and both lower the stock of the same
   product never both succeed when together they ask for more than the stock
   that was there before either started. *)
NoConcurrentOversell ==
  \A id \in SeedProducts :
    (/\ ops = 2
     /\ \A p \in Procs : proc[p].pc = "idle" /\ proc[p].result = "ok" /\ Decrease(p, id) > 0)
    => Decrease(1, id) + Decrease(2, id) <= SeedStock

RECURSIVE Replay(_, _)
\* the stock obtained by replaying the movement rows ms in creation (id) order
Replay(ms, stock) ==
  IF ms = {} THEN stock
  ELSE LET m == CHOOSE x \in ms : \A y \in ms : x.id <= y.id
           next == CASE m.movement_type = "in" -> stock + m.quantity
                     [] m.movement_type = "out" ->
                          IF m.reference_id = 0 THEN stock - m.quantity ELSE stock + m.quantity
                     [] OTHER -> m.quantity
       IN Replay(ms \ {m}, next)

(* C3: every product's current_stock equals the replay of its movement rows in
   creation order ('in' adds, 'out' subtracts the moved quantity, 'adjustment'
   replaces), the row of the initial stock included. *)
LedgerConsistent ==
  \A r \in Committed(productsTable) :
    r.current_stock =
      Replay({m \in Committed(stockMovementsTable) : m.product_id = r.id}, 0)

\* the committed rows of sale id
HeaderOf(id) == {r \in Store.sales : r.id = id}
ItemsOf(id) == {r \in Store.items : r.sale_id = id}
MovementsOf(id) == {r \in Store.movements : r.reference_id = id}

\* no reader sees a part of a sale
NoPartialRows ==
  /\ \A r \in Store.items : HeaderOf(r.sale_id) # {}
  /\ \A r \in Store.movements : r.reference_id # 0 => HeaderOf(r.reference_id) # {}
  /\ \A r \in Store.sales : Cardinality(ItemsOf(r.id)) = Cardinality(MovementsOf(r.id))
  /\ \A p \in Procs :
       (proc[p].op = "createSale" /\ proc[p].sale_id # 0) =>
         IF Succeeded(p, "createSale")
           THEN /\ Cardinality(HeaderOf(proc[p].sale_id)) = 1
                /\ Cardinality(ItemsOf(proc[p].sale_id)) = Len(proc[p].input.items)
                /\ Cardinality(MovementsOf(proc[p].sale_id)) = Len(proc[p].input.items)
           ELSE /\ HeaderOf(proc[p].sale_id) = {}
                /\ ItemsOf(proc[p].sale_id) = {}
                /\ MovementsOf(proc[p].sale_id) = {}

\* the step that shows a sale header also shows the stock its transaction
\* wrote, and a createSale that throws shows nothing
SaleShownAtOnce ==
  \A p \in Procs :
    /\ (proc[p].op = "createSale" /\ proc[p].pc # "idle" /\ proc'[p].pc = "idle"
        /\ proc'[p].result = "ok")
         => \A id \in ProductIds :
              SumQuantity(proc[p].input.items, id) > 0 =>
                {r.current_stock : r \in ProductIn(Store', id)}
                  = {r.current_stock : r \in SelectProduct(p, id)}
    /\ (proc[p].op = "createSale" /\ proc[p].pc # "idle" /\ proc'[p].pc = "idle"
        /\ proc'[p].result # "ok")
         => Store' = Store
    /\ (proc[p].op = "createSale" /\ proc[p].pc # "idle" /\ proc'[p].pc # "idle"
        /\ proc'[p] # proc[p])
         => Store' = Store

(* C4: no partial sale is observable: a sale header is committed if and only
   if all of its sale items and stock movements are, the stock written by the
   sale becomes visible in the same step, and a createSale that fails at any
   step (a later line made insufficient by a concurrent stock change
   included) leaves none of them. *)
NoPartialSale == [][NoPartialRows' /\ SaleShownAtOnce]_vars

\* a sale was rolled back at its second line, after the first line was
\* written, because a concurrent request took the stock
PartialSaleRolledBack ==
  \E p \in Procs :
    /\ Finished(p, "createSale")
    /\ proc[p].result = "InsufficientStock"
    /\ proc[p].sale_id # 0
    /\ Len(proc[p].input.items) = 2
    /\ proc[p].input.items[1].product_id = 2
    /\ proc[p].input.items[2].product_id = 1
    /\ \E q \in Procs \ {p} : Succeeded(q, "createStockMovement")

(* ------------------------ sequential runs ----------------------------- *)
SeqItems == proc[1].input.items

Lines(items) == 1 .. Len(items)

First(S) == CHOOSE j \in S : \A k \in S : j <= k

\* the lines whose product did not exist when the request started
UnknownLines(items) ==
  {j \in Lines(items) : ProductIn(before, items[j].product_id) = {}}

\* the lines that ask for more than their product had when the request started
ShortLines(items) ==
  {j \in Lines(items) :
     /\ ProductIn(before, items[j].product_id) # {}
     /\ items[j].quantity > StockIn(before, items[j].product_id)}

\* line j is for an existing, active product
KnownActive(items, j) ==
  \E r \in ProductIn(before, items[j].product_id) : r.is_active

\* line j is for an existing, active product with enough stock for it and
\* for the lines before it
LinePasses(items, j) ==
  /\ KnownActive(items, j)
  /\ SumQuantity(SubSeq(items, 1, j), items[j].product_id)
       <= StockIn(before, items[j].product_id)

(* C5 as stated: a createSale with a line for an unknown product fails with a
   product-not-found error and leaves the store as it was. *)
UnknownProductAlwaysNotFound ==
  (Finished(1, "createSale") /\ UnknownLines(SeqItems) # {})
    => proc[1].result = "ProductNotFound" /\ Store = before

(* C5 amended: a createSale with a line for an unknown product fails and leaves
   sales, sale items, stock movements and every current_stock as they were; the
   error is product-not-found when the cashier exists and every line before the
   first such line passes its own checks. *)
UnknownProductFails ==
  (Finished(1, "createSale") /\ UnknownLines(SeqItems) # {})
    => /\ proc[1].result \in Failures
       /\ Store = before
       /\ (/\ proc[1].input.cashier_id \in Users
           /\ \A j \in 1 .. (First(UnknownLines(SeqItems)) - 1) : LinePasses(SeqItems, j))
            => proc[1].result = "ProductNotFound"

\* the second line's product is unknown and the first line was already written
UnknownProductRolledBack ==
  /\ Finished(1, "createSale")
  /\ impl.createSale = "B"
  /\ UnknownLines(SeqItems) = {2}
  /\ proc[1].result = "ProductNotFound"
  /\ serial["items"] > 1
  /\ Store = before

(* C6 as stated: a createSale with a line that asks for more than its
   product's stock fails with an insufficient-stock error and persists nothing. *)
ShortLineAlwaysInsufficient ==
  (Finished(1, "createSale") /\ ShortLines(SeqItems) # {})
    => proc[1].result = "InsufficientStock" /\ Store = before

(* C6 amended: a createSale with a line that asks for more than its product's
   stock fails and persists nothing, whatever the position of the line; the
   error is insufficient-stock when the cashier exists and every line before
   the first such line is for an existing, active product. *)
ShortLineFails ==
  (Finished(1, "createSale") /\ ShortLines(SeqItems) # {})
    => /\ proc[1].result \in Failures
       /\ Store = before
       /\ (/\ proc[1].input.cashier_id \in Users
           /\ \A j \in 1 .. (First(ShortLines(SeqItems)) - 1) : KnownActive(SeqItems, j))
            => proc[1].result = "InsufficientStock"

\* the second line is short and the first line, within stock, was already written
ShortLineRolledBack ==
  /\ Finished(1, "createSale")
  /\ impl.createSale = "B"
  /\ ShortLines(SeqItems) = {2}
  /\ LinePasses(SeqItems, 1)
  /\ proc[1].result = "InsufficientStock"
  /\ serial["items"] > 1
  /\ Store = before

\* the finished request of slot 1 was a direct 'out' movement on a known product
DirectOut ==
  /\ Finished(1, "createStockMovement")
  /\ proc[1].input.movement_type = "out"
  /\ ProductIn(before, proc[1].input.product_id) # {}

(* C7: a direct 'out' movement with quantity greater than the current stock
   fails with an insufficient-stock error, leaves current_stock unchanged and
   writes no movement row. *)
OutBeyondStockFails ==
  (DirectOut /\ proc[1].input.quantity > StockIn(before, proc[1].input.product_id))
    => proc[1].result = "InsufficientStock" /\ Store = before

\* an 'out' of one more than the stock was refused
OutBeyondStockRefused ==
  /\ DirectOut
  /\ proc[1].input.quantity = StockIn(before, proc[1].input.product_id) + 1
  /\ proc[1].result = "InsufficientStock"

(* C8: a direct 'out' movement with quantity equal to the current stock
   succeeds, records one movement row and leaves current_stock at 0. *)
OutOfAllStockSucceeds ==
  (DirectOut /\ proc[1].input.quantity = StockIn(before, proc[1].input.product_id))
    => /\ proc[1].result = "ok"
       /\ StockIn(Store, proc[1].input.product_id) = 0
       /\ before.movements \subseteq Store.movements
       /\ Cardinality(Store.movements \ before.movements) = 1
       /\ \A m \in Store.movements \ before.movements :
            /\ m.product_id = proc[1].input.product_id
            /\ m.movement_type = "out"
            /\ m.quantity = proc[1].input.quantity

\* an 'out' of the whole (positive) stock went through
OutOfAllStockDone ==
  /\ DirectOut
  /\ proc[1].input.quantity = StockIn(before, proc[1].input.product_id)
  /\ proc[1].input.quantity > 0
  /\ proc[1].result = "ok"
  /\ StockIn(Store, proc[1].input.product_id) = 0

(* C9: a successful createSale with N lines persists exactly one sale header,
   exactly N sale items with its sale id and exactly N 'out' movements with its
   id as reference_id, one per line and for that line's product. *)
SaleWritesOneRowPerLine ==
  Succeeded(1, "createSale") =>
    LET n == Len(SeqItems)
        newSales == Store.sales \ before.sales
        newItems == Store.items \ before.items
        newMovements == Store.movements \ before.movements
    IN /\ before.sales \subseteq Store.sales
       /\ before.items \subseteq Store.items
       /\ before.movements \subseteq Store.movements
       /\ Cardinality(newSales) = 1
       /\ \A r \in newSales : r.id = proc[1].sale_id
       /\ Cardinality(newItems) = n
       /\ \A r \in newItems : r.sale_id = proc[1].sale_id
       /\ Cardinality(newMovements) = n
       /\ \A r \in newMovements : r.movement_type = "out" /\ r.reference_id = proc[1].sale_id
       /\ \A id \in ProductIds :
            LET lines == Cardinality({j \in Lines(SeqItems) : SeqItems[j].product_id = id})
            IN /\ Cardinality({r \in newItems : r.product_id = id}) = lines
               /\ Cardinality({r \in newMovements : r.product_id = id}) = lines

\* a sale of two lines for two different products went through
TwoLineSaleDone ==
  /\ Succeeded(1, "createSale")
  /\ Len(SeqItems) = 2
  /\ SeqItems[1].product_id # SeqItems[2].product_id
  /\ Cardinality(ItemsOf(proc[1].sale_id)) = 2

RECURSIVE SumLinePrices(_)
\* the sum of quantity x unit_price over the request's lines, in half cents
SumLinePrices(items) ==
  IF items = <<>> THEN 0
  ELSE Head(items).quantity * Head(items).unit_price + SumLinePrices(Tail(items))

RECURSIVE SumTotalPrice(_)
\* the sum of total_price over sale item rows, in cents
SumTotalPrice(rows) ==
  IF rows = {} THEN 0
  ELSE LET r == CHOOSE x \in rows : TRUE
       IN r.total_price + SumTotalPrice(rows \ {r})

\* every unit price of the request is a whole number of cents
WholeCents(items) == \A j \in Lines(items) : items[j].unit_price % 2 = 0

(* C10: for a successful createSale whose unit prices are whole cents,
   total_amount is the sum of quantity x unit_price over the lines, every
   sale item's total_price is its quantity x unit_price, and total_amount is
   the sum of the persisted total_price values. *)
SaleTotalsExact ==
  (Succeeded(1, "createSale") /\ WholeCents(SeqItems)) =>
    /\ \A s \in HeaderOf(proc[1].sale_id) :
         /\ 2 * s.total_amount = SumLinePrices(SeqItems)
         /\ s.total_amount = SumTotalPrice(ItemsOf(proc[1].sale_id))
    /\ \A r \in ItemsOf(proc[1].sale_id) : r.total_price = r.quantity * r.unit_price
    /\ Cardinality(HeaderOf(proc[1].sale_id)) = 1

\* a sale of two lines with different quantities at whole-cent prices went through
TwoLineTotalsDone ==
  /\ Succeeded(1, "createSale")
  /\ WholeCents(SeqItems)
  /\ Len(SeqItems) = 2
  /\ SeqItems[1].quantity # SeqItems[2].quantity
  /\ \E s \in HeaderOf(proc[1].sale_id) : s.total_amount = SumTotalPrice(ItemsOf(proc[1].sale_id))

(* ------------------------ change and payment -------------------------- *)
\* max(0, n)
Max0(n) == IF n > 0 THEN n ELSE 0

(* C11: for every successful createSale the persisted change_given is
   max(0, payment_received - total_amount) of the persisted sale, and it is
   never negative; a payment below the total is accepted with change 0. *)
ChangeIsClampedDifference ==
  Succeeded(1, "createSale") =>
    \A s \in HeaderOf(proc[1].sale_id) :
      /\ s.change_given = Max0(s.payment_received - s.total_amount)
      /\ s.change_given >= 0

(* --------------------------- sale effects ----------------------------- *)
RECURSIVE SumMovementQuantity(_)
\* the sum of the quantity column over movement rows
SumMovementQuantity(rows) ==
  IF rows = {} THEN 0
  ELSE LET r == CHOOSE x \in rows : TRUE
       IN r.quantity + SumMovementQuantity(rows \ {r})

(* C12: after a successful createSale every product's current_stock is lower
   by exactly the sum of the quantities of the request's lines for it (a
   product without a line keeps its row), and every movement row of the sale
   stores the negated quantity of a line for its product, created_by the
   cashier. *)
SaleLowersStockByLines ==
  Succeeded(1, "createSale") =>
    /\ {r.id : r \in Store.products} = {r.id : r \in before.products}
    /\ \A r \in before.products :
         /\ StockIn(Store, r.id) = r.current_stock - SumQuantity(SeqItems, r.id)
         /\ SumQuantity(SeqItems, r.id) = 0 => r \in Store.products
    /\ \A m \in MovementsOf(proc[1].sale_id) :
         /\ m.created_by = proc[1].input.cashier_id
         /\ \E j \in Lines(SeqItems) :
              /\ SeqItems[j].product_id = m.product_id
              /\ m.quantity = 0 - SeqItems[j].quantity
    /\ \A id \in ProductIds :
         SumMovementQuantity({m \in MovementsOf(proc[1].sale_id) : m.product_id = id})
           = 0 - SumQuantity(SeqItems, id)

\* a sale with two lines for the same product went through, and took both
\* quantities from its stock while the other product kept its own
TwoLinesOneProductDone ==
  /\ Succeeded(1, "createSale")
  /\ Len(SeqItems) = 2
  /\ SeqItems[1].product_id = 1
  /\ SeqItems[2].product_id = 1
  /\ StockIn(Store, 1) = StockIn(before, 1) - 2
  /\ StockIn(Store, 2) = StockIn(before, 2)
  /\ Cardinality(MovementsOf(proc[1].sale_id)) = 2

(* ------------------------- direct movements --------------------------- *)
\* the finished request of slot 1 was a direct movement of the given type
DirectMovement(movement_type) ==
  /\ Finished(1, "createStockMovement")
  /\ proc[1].input.movement_type = movement_type

\* the stock levels the adjustment rule is evaluated for
StockLevels == (0 - 1) .. MaxQty

(* C13: a successful 'adjustment' movement with quantity q leaves the
   product's current_stock at exactly q whatever the stock was before, and
   applying the adjustment rule to its own result gives the same stock. *)
AdjustmentSetsStock ==
  /\ (DirectMovement("adjustment") /\ proc[1].result = "ok")
       => StockIn(Store, proc[1].input.product_id) = proc[1].input.quantity
  /\ \A s \in StockLevels, q \in StockLevels :
       LET rule(c) == IF impl.createStockMovement = "A"
                        THEN NewStock("adjustment", c, q)
                        ELSE NewStockLevel("adjustment", c, q)
       IN rule(s) = q /\ rule(rule(s)) = rule(s)

\* the same adjustment was applied twice in a row, to a stock that was
\* different from its quantity at first
AdjustmentAppliedTwice ==
  /\ DirectMovement("adjustment")
  /\ proc[1].result = "ok"
  /\ proc[1].input.quantity # SeedStock
  /\ \E m \in before.movements :
       /\ m.movement_type = "adjustment"
       /\ m.product_id = proc[1].input.product_id
       /\ m.quantity = proc[1].input.quantity
  /\ StockIn(before, proc[1].input.product_id) = proc[1].input.quantity
  /\ StockIn(Store, proc[1].input.product_id) = proc[1].input.quantity
  /\ Cardinality(Store.movements \ before.movements) = 1

\* the quantities the movement rules do not allow
InvalidQuantity(movement_type, quantity) ==
  IF movement_type = "adjustment" THEN quantity < 0 ELSE quantity <= 0

(* C14: a createStockMovement request whose quantity is not > 0 for 'in' or
   'out', or is < 0 for 'adjustment', is rejected: it does not succeed, no
   movement row is written and no stock changes. *)
InvalidQuantityRejected ==
  (/\ Finished(1, "createStockMovement")
   /\ InvalidQuantity(proc[1].input.movement_type, proc[1].input.quantity))
    => proc[1].result # "ok" /\ Store = before

\* the rows and updates the open transaction of slot p has written so far
WrittenBy(p) ==
  {r \in productsTable \cup stockMovementsTable \cup salesTable \cup saleItemsTable : r.xid = p}
    \cup {w \in productWrites : w.xid = p}

(* C15: a createStockMovement request for a product id that does not exist
   fails with a product-not-found error whatever its movement type, and it
   never writes: no movement row is inserted, not even inside its
   transaction, and the store stays as it was. *)
UnknownProductMovementFails ==
  (/\ proc[1].op = "createStockMovement"
   /\ ProductIn(before, proc[1].input.product_id) = {})
    => /\ WrittenBy(1) = {}
       /\ proc[1].pc \in {"select", "idle"}
       /\ Store = before
       /\ proc[1].pc = "idle" => proc[1].result = "ProductNotFound"

\* an 'in' movement, which no stock check could stop, was refused for an
\* unknown product
UnknownProductMovementRefused ==
  /\ DirectMovement("in")
  /\ proc[1].input.quantity > 0
  /\ ProductIn(before, proc[1].input.product_id) = {}
  /\ proc[1].result = "ProductNotFound"
  /\ Store = before

(* ------------------------- sale preconditions ------------------------- *)
\* the lines whose product existed but was not active when the request started
InactiveLines(items) ==
  {j \in Lines(items) : \E r \in ProductIn(before, items[j].product_id) : ~r.is_active}

(* C16: a createSale with a line for a product whose active flag is false never
   succeeds: it fails with a not-active error and no sale header, sale item,
   movement or stock change is persisted. *)
InactiveProductSaleFails ==
  (Finished(1, "createSale") /\ InactiveLines(SeqItems) # {})
    => proc[1].result = "ProductNotActive" /\ Store = before

(* C17: a createSale request whose line list is empty is rejected and persists
   nothing: no sale header (of total 0) is created. *)
EmptySaleRejected ==
  (Finished(1, "createSale") /\ SeqItems = <<>>)
    => proc[1].result # "ok" /\ Store = before

\* the number of lines of the running createSale of slot p whose checks
\* (exists, active, stock) were made and passed
LinesValidated(p) ==
  LET n == Len(proc[p].input.items)
  IN CASE proc[p].pc = "cashier"    -> 0
       [] proc[p].pc = "validate"   -> proc[p].i - 1
       [] proc[p].pc = "insertSale" -> IF impl.createSale = "A" THEN n ELSE 0
       [] proc[p].pc = "select"     -> proc[p].i - 1
       [] proc[p].pc \in {"insertItem", "updateStock", "insertMovement"} ->
            IF impl.createSale = "A" THEN n ELSE proc[p].i
       [] OTHER -> n

(* C18: in createSale the validation of every line is complete before the
   first write of the request: while a line is still unvalidated the request
   has written no sale header, sale item, stock decrement or movement. *)
ValidationBeforeWrites ==
  \A p \in Procs :
    (proc[p].op = "createSale" /\ proc[p].pc # "idle" /\ WrittenBy(p) # {})
      => LinesValidated(p) = Len(proc[p].input.items)

(* ----------------------- transaction identifiers ---------------------- *)
\* no two committed sales carry the same transaction_id
TransactionIdsDistinct ==
  \A a \in Store.sales : \A b \in Store.sales :
    a.transaction_id = b.transaction_id => a = b

\* the step in which a createSale fails on the unique constraint commits
\* nothing and leaves no row of its transaction behind
CollisionPersistsNothing ==
  \A p \in Procs :
    (/\ proc[p].op = "createSale"
     /\ proc[p].pc # "idle"
     /\ proc'[p].pc = "idle"
     /\ proc'[p].result = "ConstraintViolation")
      => /\ Store' = Store
         /\ WrittenBy(p)' = {}
         /\ \E r \in Store.sales : r.transaction_id = proc[p].input.txn

(* C19: transaction identifiers are unique: in every reachable state no two
   persisted sales have the same transaction_id, whatever identifiers the
   concurrent checkouts draw, and a checkout whose identifier collides with a
   persisted one fails as a constraint violation with nothing persisted. *)
UniqueTransactionIds ==
  [][TransactionIdsDistinct' /\ CollisionPersistsNothing]_vars

\* two concurrent checkouts drew the same identifier: one is persisted, the
\* other failed on the constraint
CollidingCheckoutRefused ==
  \E p \in Procs : \E q \in Procs \ {p} :
    /\ Succeeded(q, "createSale")
    /\ Finished(p, "createSale")
    /\ proc[p].result = "ConstraintViolation"
    /\ proc[p].input.txn = proc[q].input.txn
    /\ Cardinality(Store.sales) = 1
    /\ ItemsOf(proc[q].sale_id) # {}

(* C20 as stated: a createSale whose cashier_id references no existing user
   fails with a cashier-not-found error, and no sale header, sale item,
   movement or stock change is persisted. *)
UnknownCashierSaleFails ==
  (Finished(1, "createSale") /\ proc[1].input.cashier_id \notin Users)
    => proc[1].result = "CashierNotFound" /\ Store = before

(* C20 amended: where the cashier is validated (handlers/create_sale.ts), a
   createSale whose cashier_id references no existing user fails with a
   cashier-not-found error and persists nothing; the other implementation
   never looks the cashier up and never raises that error. *)
UnknownCashierFailsWhereChecked ==
  (Finished(1, "createSale") /\ proc[1].input.cashier_id \notin Users)
    => IF impl.createSale = "A"
         THEN proc[1].result = "CashierNotFound" /\ Store = before
         ELSE proc[1].result # "CashierNotFound"

\* a checkout for an unknown cashier was refused before anything was written
UnknownCashierRefused ==
  /\ Finished(1, "createSale")
  /\ impl.createSale = "A"
  /\ proc[1].input.cashier_id \notin Users
  /\ proc[1].result = "CashierNotFound"
  /\ proc[1].sale_id = 0
  /\ Store = before

(* --------------------------- the catalog ------------------------------ *)
(* C21: a successful createProduct with initial_stock = 0 writes no stock
   movement row; with initial_stock = n > 0 it writes exactly one, for the new
   product, of type 'in' and quantity n; either way the new product's
   current_stock is initial_stock. *)
CreateProductWritesInitialMovement ==
  Succeeded(1, "createProduct") =>
    LET id == proc[1].product_id
        n == proc[1].input.initial_stock
        newMovements == Store.movements \ before.movements
    IN /\ ProductIn(before, id) = {}
       /\ Cardinality(ProductIn(Store, id)) = 1
       /\ StockIn(Store, id) = n
       /\ before.movements \subseteq Store.movements
       /\ IF n = 0
            THEN newMovements = {}
            ELSE /\ Cardinality(newMovements) = 1
                 /\ \A m \in newMovements :
                      m.product_id = id /\ m.movement_type = "in" /\ m.quantity = n

\* a product was created with a positive initial stock and has its one movement
ProductCreatedWithStock ==
  /\ Succeeded(1, "createProduct")
  /\ proc[1].input.initial_stock > 0
  /\ StockIn(Store, proc[1].product_id) = proc[1].input.initial_stock
  /\ Cardinality({m \in Store.movements : m.product_id = proc[1].product_id}) = 1

(* C22: a movement row written by createStockMovement stores the quantity
   exactly as supplied (positive for a direct 'out') with no reference_id; a
   movement row written by createSale stores the negative of the sold
   quantity, the sale id as reference_id and a note with the sale's
   transaction id. *)
StoredQuantityConvention ==
  LET newMovements == Store.movements \ before.movements
  IN /\ Succeeded(1, "createStockMovement") =>
          /\ Cardinality(newMovements) = 1
          /\ \A m \in newMovements :
               /\ m.quantity = proc[1].input.quantity
               /\ m.movement_type = proc[1].input.movement_type
               /\ m.product_id = proc[1].input.product_id
               /\ m.reference_id = 0
               /\ m.notes = proc[1].input.notes
     /\ Succeeded(1, "createSale") =>
          \A m \in newMovements :
            /\ m.quantity < 0
            /\ \E j \in Lines(SeqItems) :
                 SeqItems[j].product_id = m.product_id /\ m.quantity = 0 - SeqItems[j].quantity
            /\ m.reference_id = proc[1].sale_id
            /\ m.reference_id # 0
            /\ \E s \in HeaderOf(proc[1].sale_id) :
                 m.notes = [kind |-> "Sale transaction", txn |-> s.transaction_id]

\* a direct 'out' stored its positive quantity next to the negative quantity
\* an earlier sale stored for the same product
BothConventionsStored ==
  /\ DirectMovement("out")
  /\ proc[1].result = "ok"
  /\ proc[1].input.quantity > 0
  /\ \E m \in Store.movements \ before.movements :
       m.quantity = proc[1].input.quantity /\ m.reference_id = 0
  /\ \E m \in before.movements :
       /\ m.movement_type = "out"
       /\ m.product_id = proc[1].input.product_id
       /\ m.quantity < 0
       /\ m.reference_id # 0

(* C23: persisted stock movement, sale and sale item rows are never changed
   or deleted by a later step of any operation (createSale,
   createStockMovement, createProduct, updateProduct): the sets of persisted
   rows only grow. *)
AppendOnlyLedger ==
  [][/\ Store.movements \subseteq Store'.movements
     /\ Store.sales \subseteq Store'.sales
     /\ Store.items \subseteq Store'.items]_vars

\* a sale of product 1 is persisted with its rows, and updateProduct has
\* rewritten the row of product 1
SaleRowsOutliveLaterRequests ==
  /\ \E r \in Store.sales :
       /\ ItemsOf(r.id) # {}
       /\ \E m \in MovementsOf(r.id) : m.product_id = 1
  /\ \E r \in ProductIn(Store, 1) : r.min_stock_level = 1
  /\ \E p \in Procs : Succeeded(p, "updateProduct")

(* ------------------------ concurrent movements ------------------------ *)
(* C24: when two createStockMovement 'in' requests on the same product ran
   concurrently and both succeeded, the final current_stock is the stock
   before them plus both quantities. *)
ConcurrentInsAddUp ==
  \A id \in SeedProducts :
    (/\ ops = 2
     /\ \A p \in Procs :
          /\ Succeeded(p, "createStockMovement")
          /\ proc[p].input.movement_type = "in"
          /\ proc[p].input.product_id = id)
    => StockIn(Store, id) = SeedStock + proc[1].input.quantity + proc[2].input.quantity

(* ------------------------- movement history --------------------------- *)
\* the rows of the list returned to the finished query of slot 1
Returned == {proc[1].results[k] : k \in DOMAIN proc[1].results}

(* C25: getStockMovements(productId) returns exactly the persisted movement
   rows of that product (all persisted movement rows when no product id is
   given), each once, most recent first; for a product id without movements
   it returns the empty list. *)
MovementHistoryExact ==
  Finished(1, "getStockMovements") =>
    LET productId == proc[1].input.productId
        results == proc[1].results
    IN /\ proc[1].result = "ok"
       /\ Returned = {m \in Store.movements : productId # 0 => m.product_id = productId}
       /\ Len(results) = Cardinality(Returned)
       /\ \A j \in DOMAIN results : \A k \in DOMAIN results :
            j < k => results[j].created_at >= results[k].created_at

(* ------------------------- repeated products -------------------------- *)
\* the products that are on two or more lines of the request, which together
\* ask for more than was in stock
Oversold(items) ==
  {id \in {r.id : r \in before.products} :
     /\ Cardinality({j \in Lines(items) : items[j].product_id = id}) >= 2
     /\ SumQuantity(items, id) > StockIn(before, id)}

\* no single line asks for more than its product's stock
EachLineWithinStock(items) == ShortLines(items) = {}

(* C26: a createSale with several lines for one product is applied only if
   the sum of their quantities is at most the product's current_stock; when
   each line alone is within stock but the sum is not, the sale is rejected
   with insufficient stock and nothing is persisted. *)
RepeatedLinesWithinStock ==
  (Finished(1, "createSale") /\ Oversold(SeqItems) # {})
    => /\ proc[1].result # "ok"
       /\ Store = before
       /\ (/\ EachLineWithinStock(SeqItems)
           /\ proc[1].input.cashier_id \in Users
           /\ \A j \in Lines(SeqItems) : KnownActive(SeqItems, j))
            => proc[1].result = "InsufficientStock"

(* C27: the per-line checks of createSale run in the order existence, active
   flag, stock: a (first) line whose product exists, is inactive and has
   less stock than the line asks for is reported with the not-active error. *)
InactiveReportedBeforeShort ==
  (/\ Finished(1, "createSale")
   /\ proc[1].input.cashier_id \in Users
   /\ 1 \in InactiveLines(SeqItems)
   /\ 1 \in ShortLines(SeqItems))
    => proc[1].result = "ProductNotActive"

(* C28: createProduct is atomic with respect to its initial movement: in
   every committed state, also between the statements of a running
   createProduct, the product of a request with initial_stock > 0 exists
   if and only if its 'in' movement of that quantity exists. *)
ProductAndInitialMovementTogether ==
  \A p \in Procs :
    (/\ proc[p].op = "createProduct"
     /\ proc[p].input.initial_stock > 0
     /\ proc[p].product_id # 0)
      => (ProductIn(Store, proc[p].product_id) # {}
            <=> \E m \in Store.movements :
                  /\ m.product_id = proc[p].product_id
                  /\ m.movement_type = "in"
                  /\ m.quantity = proc[p].input.initial_stock)

(* C29: updateProduct never changes a product's current_stock or active
   flag and never writes a stock movement or a sale; for an unknown product
   id it fails with the not-found error and changes nothing, for a known id
   it succeeds and keeps the set of products. *)
UpdateProductKeepsStock ==
  /\ Finished(1, "updateProduct") =>
       /\ Store.movements = before.movements
       /\ Store.sales = before.sales
       /\ Store.items = before.items
       /\ {r.id : r \in Store.products} = {r.id : r \in before.products}
       /\ \A r \in Store.products :
            /\ r.current_stock = StockIn(before, r.id)
            /\ r.is_active = (CHOOSE b \in ProductIn(before, r.id) : TRUE).is_active
       /\ IF ProductIn(before, proc[1].input.id) = {}
            THEN proc[1].result = "ProductNotFound" /\ Store = before
            ELSE /\ proc[1].result = "ok"
                 /\ \A r \in ProductIn(Store, proc[1].input.id) :
                      r.min_stock_level = proc[1].input.min_stock_level
  \* the stock of a product changes only through createStockMovement and createSale
  /\ (proc[1].pc = "idle" /\ proc[1].op \notin {"createStockMovement", "createSale"}) =>
       \A b \in before.products :
         ProductIn(Store, b.id) # {} /\ StockIn(Store, b.id) = b.current_stock

\* an update of a product in stock succeeded and changed its row
ProductUpdatedStockKept ==
  /\ Finished(1, "updateProduct")
  /\ proc[1].result = "ok"
  /\ Store.products # before.products
  /\ StockIn(Store, proc[1].input.id) > 0

(* ------------------ the two createStockMovement ----------------------- *)
\* what a client can observe of a movement row: the serial id and the
\* timestamp depend on the history, not on the implementation
ObservedRow(m) ==
  [product_id |-> m.product_id, movement_type |-> m.movement_type,
   quantity |-> m.quantity, reference_id |-> m.reference_id,
   notes |-> m.notes, created_by |-> m.created_by]

\* the outcome of a createStockMovement started in store s: the error kind
\* or "ok", the products afterwards, the movement rows written
StockMovementOutcome(s, input, insufficient, newStock) ==
  IF ProductIn(s, input.product_id) = {}
    THEN [result |-> "ProductNotFound", products |-> s.products, written |-> {}]
  ELSE IF insufficient
    THEN [result |-> "InsufficientStock", products |-> s.products, written |-> {}]
  ELSE [result |-> "ok",
        products |-> {IF r.id = input.product_id
                        THEN [r EXCEPT !.current_stock = newStock] ELSE r
                      : r \in s.products},
        written |-> {[product_id |-> input.product_id,
                      movement_type |-> input.movement_type,
                      quantity |-> input.quantity, reference_id |-> 0,
                      notes |-> input.notes, created_by |-> input.created_by]}]

\* handlers/create_stock_movement.ts run alone in store s
createStockMovementOutcome(s, input) ==
  LET currentStock == IF ProductIn(s, input.product_id) = {} THEN 0
                      ELSE StockIn(s, input.product_id)
  IN StockMovementOutcome(s, input,
       InsufficientStock(input.movement_type, currentStock, input.quantity),
       NewStock(input.movement_type, currentStock, input.quantity))

\* the other implementation run alone in store s
createStockMovementBOutcome(s, input) ==
  LET currentStock == IF ProductIn(s, input.product_id) = {} THEN 0
                      ELSE StockIn(s, input.product_id)
  IN StockMovementOutcome(s, input,
       InsufficientStockB(input.movement_type, currentStock, input.quantity),
       NewStockLevel(input.movement_type, currentStock, input.quantity))

(* C30: the two createStockMovement implementations are observationally
   equivalent: from the same product table and for the same request (any
   type, any integer quantity, known or unknown product) both succeed or
   both fail with the same error kind, and on success both leave the same
   current_stock and write the same movement row; the finished request
   shows exactly that outcome, whichever implementation served it. *)
StockMovementImplementationsAgree ==
  Finished(1, "createStockMovement") =>
       \* the rules of the request's type agree at every stock level
       /\ \A c \in StockLevels, q \in StockLevels :
            LET t == proc[1].input.movement_type
            IN /\ InsufficientStock(t, c, q) = InsufficientStockB(t, c, q)
               /\ ~InsufficientStock(t, c, q) => NewStock(t, c, q) = NewStockLevel(t, c, q)
       /\ createStockMovementOutcome(before, proc[1].input)
            = createStockMovementBOutcome(before, proc[1].input)
       /\ [result |-> proc[1].result, products |-> Store.products,
           written |-> {ObservedRow(m) : m \in Store.movements \ before.movements}]
            = (IF impl.createStockMovement = "A"
                 THEN createStockMovementOutcome(before, proc[1].input)
                 ELSE createStockMovementBOutcome(before, proc[1].input))
       /\ Store.sales = before.sales /\ Store.items = before.items

\* the other implementation served an adjustment that changed the stock
OtherImplementationAdjusted ==
  /\ Succeeded(1, "createStockMovement")
  /\ impl.createStockMovement = "B"
  /\ proc[1].input.movement_type = "adjustment"
  /\ StockIn(Store, proc[1].input.product_id) # StockIn(before, proc[1].input.product_id)

====
